---------------------------- MODULE Spec2Model ----------------------------
(***************************************************************************)
(* A model of the two components of luator/dbot that src/ holds:           *)
(*                                                                         *)
(*   - FullRigidBodySystem (full_rigid_body_system.hpp), the flat          *)
(*     13-scalars-per-body state vector with its constructors, its         *)
(*     get-style accessors and its writable block views;                   *)
(*   - RigidBodyRenderer (rigid_body_renderer.hpp), the pose and camera    *)
(*     cache, the Render overloads and the dense-vector conversions.       *)
(*                                                                         *)
(* The two components share no state; SpecState is the state vector's      *)
(* specification and SpecRender the renderer's.                            *)
(***************************************************************************)
EXTENDS Integers, Sequences, FiniteSets, TLC

VARIABLES
    \* ---- FullRigidBodySystem ----
    sv,             \* the underlying Eigen vector (0-based in C++, 1-based here)
    count_bodies_,  \* Base's body count, reported by countBodies()
    count_state_,   \* Base's state size, reported by countState()
    sv_last,        \* the last operation on the state object and its arguments
    sv_writes,      \* number of writes through views since construction
    \* ---- RigidBodyRenderer ----
    vertices_,      \* per body, the local vertices
    indices_,       \* per body, the triangles (triples of vertex indices)
    R_,             \* current rotation per body
    t_,             \* current translation per body
    camera_matrix_, \* cached camera intrinsics
    n_rows_,        \* cached row count
    n_cols_,        \* cached column count
    params_set,     \* whether the constructor or parameters(...) ever set the camera
    last            \* the last call on the renderer: its arguments, outcome and outputs

sv_vars == <<sv, count_bodies_, count_state_, sv_last, sv_writes>>
rd_vars == <<vertices_, indices_, R_, t_, camera_matrix_, n_rows_, n_cols_,
             params_set, last>>
vars == <<sv, count_bodies_, count_state_, sv_last, sv_writes,
          vertices_, indices_, R_, t_, camera_matrix_, n_rows_, n_cols_,
          params_set, last>>

(***************************************************************************)
(* Bounds of the model.                                                    *)
(***************************************************************************)
\* largest body count given to the fixed-size and dynamic-size constructors
MaxBodies == 2
\* writes through accessor views explored after one construction
MaxWrites == 2

(***************************************************************************)
(*                        FullRigidBodySystem                              *)
(***************************************************************************)
COUNT_PER_BODY == 13
POSITION_INDEX == 0
POSITION_COUNT == 3
ORIENTATION_INDEX == 3
ORIENTATION_COUNT == 4
LINEAR_VELOCITY_INDEX == 7
LINEAR_VELOCITY_COUNT == 3
ANGULAR_VELOCITY_INDEX == 10
ANGULAR_VELOCITY_COUNT == 3

\* StateVector::Zero(n)
Zero(n) == [k \in 1..n |-> 0]

\* Quaternion::Identity().coeffs(): Eigen stores the coefficients as x, y, z, w
IdentityCoeffs == <<0, 0, 0, 1>>

\* middleRows<count>(start) and VectorBlock<StateVector, count>(derived, start),
\* read: the count scalars from the 0-based offset start
middleRows(v, start, count) == [k \in 1..count |-> v[start + k]]

\* assignment through a block of count scalars at the 0-based offset start
AssignBlock(v, start, count, value) ==
    [k \in 1..Len(v) |->
        IF k > start /\ k <= start + count THEN value[k - start] ELSE v[k]]

\* reset_quaternions(): the loop over object_index < countBodies()
RECURSIVE ResetFrom(_, _, _)
ResetFrom(v, object_index, bodies) ==
    IF object_index >= bodies THEN v
    ELSE ResetFrom(AssignBlock(v, object_index * COUNT_PER_BODY + 3, 4, IdentityCoeffs),
                   object_index + 1, bodies)

reset_quaternions_FirstOnly(v, bodies) == ResetFrom(v, 0, IF bodies > 1 THEN 1 ELSE bodies)
reset_quaternions(v, bodies) == ResetFrom(v, 0, bodies)

\* Base(state_vector, count_bodies): RigidBodySystem keeps the vector and the counts
BaseInit(state_vector, bodies) ==
    [vec |-> state_vector, count_bodies |-> bodies, count_state |-> Len(state_vector)]

\* FullRigidBodySystem(): Base(Zero(SIZE_STATE), body_size); reset_quaternions()
FixedVector(body_size) == Zero(body_size * COUNT_PER_BODY)

CtorFixed(body_size) ==
    LET b == BaseInit(FixedVector(body_size), body_size)
    IN  [b EXCEPT !.vec = reset_quaternions(b.vec, b.count_bodies)]

\* FullRigidBodySystem(unsigned count_bodies)
DynamicVector(bodies) == Zero(bodies * COUNT_PER_BODY)

CtorDynamic(bodies) ==
    LET b == BaseInit(DynamicVector(bodies), bodies)
    IN  [b EXCEPT !.vec = reset_quaternions(b.vec, b.count_bodies)]

\* FullRigidBodySystem(const Eigen::MatrixBase<T>& state_vector):
\* Base(state_vector, state_vector.rows()/COUNT_PER_BODY) { }
VectorBodies_OffByOne(state_vector) == Len(state_vector) \div COUNT_PER_BODY + 1
VectorBodies(state_vector) == Len(state_vector) \div COUNT_PER_BODY

CtorVector(state_vector) == BaseInit(state_vector, VectorBodies(state_vector))

countState == count_state_
countBodies == count_bodies_

\* get-style accessors of the parent class, implemented with middleRows
get_position(v, object_index) ==
    middleRows(v, object_index * COUNT_PER_BODY + POSITION_INDEX, POSITION_COUNT)
get_orientation(v, object_index) ==
    middleRows(v, object_index * COUNT_PER_BODY + ORIENTATION_INDEX, ORIENTATION_COUNT)
get_linear_velocity_WrongIndex(v, object_index) ==
    middleRows(v, object_index * COUNT_PER_BODY + ORIENTATION_INDEX, LINEAR_VELOCITY_COUNT)
get_linear_velocity(v, object_index) ==
    middleRows(v, object_index * COUNT_PER_BODY + LINEAR_VELOCITY_INDEX, LINEAR_VELOCITY_COUNT)
get_angular_velocity(v, object_index) ==
    middleRows(v, object_index * COUNT_PER_BODY + ANGULAR_VELOCITY_INDEX, ANGULAR_VELOCITY_COUNT)

\* the writable views: a VectorBlock is the pair (0-based start, count)
position(object_index) ==
    [start |-> object_index * COUNT_PER_BODY + POSITION_INDEX, count |-> POSITION_COUNT]
orientation(object_index) ==
    [start |-> object_index * COUNT_PER_BODY + ORIENTATION_INDEX, count |-> ORIENTATION_COUNT]
linear_velocity(object_index) ==
    [start |-> object_index * COUNT_PER_BODY + LINEAR_VELOCITY_INDEX,
     count |-> LINEAR_VELOCITY_COUNT]
angular_velocity(object_index) ==
    [start |-> object_index * COUNT_PER_BODY + ANGULAR_VELOCITY_INDEX,
     count |-> ANGULAR_VELOCITY_COUNT]
\* operator[](object_index)
SingleBody(object_index) ==
    [start |-> object_index * COUNT_PER_BODY, count |-> COUNT_PER_BODY]

\* the view a write operation goes through, by the accessor's name
ViewOf(op, object_index) ==
    CASE op = "position" -> position(object_index)
      [] op = "orientation" -> orientation(object_index)
      [] op = "linear_velocity" -> linear_velocity(object_index)
      [] op = "angular_velocity" -> angular_velocity(object_index)
      [] op = "block" -> SingleBody(object_index)

\* the get-style accessor matching a view
GetOf(op, v, object_index) ==
    CASE op = "position" -> get_position(v, object_index)
      [] op = "orientation" -> get_orientation(v, object_index)
      [] op = "linear_velocity" -> get_linear_velocity(v, object_index)
      [] op = "angular_velocity" -> get_angular_velocity(v, object_index)

\* the 0-based scalar offsets a view covers
ViewRange(view) == view.start .. (view.start + view.count - 1)

(***************************************************************************)
(* Inputs of the state vector's operations.                                *)
(***************************************************************************)
\* longest flat value sequence given to the constructor with initial value
MaxLen == 27

\* per-body contents of the flat value sequences given to that constructor:
\* all zero, a non-unit orientation, the identity orientation among non-zero
\* scalars, and a unit orientation that is not the identity
InputPatterns ==
    { <<0, 0, 0,  0, 0, 0, 0,  0, 0, 0,  0, 0, 0>>,
      <<1, 2, 0,  1, 2, 0, 1,  2, 1, 0,  1, 1, 2>>,
      <<5, 6, 7,  0, 0, 0, 1,  8, 9, 5,  6, 7, 8>>,
      <<3, 3, 3,  1, 0, 0, 0,  4, 4, 4,  5, 5, 5>> }

InputVector(len, pattern) ==
    [k \in 1..len |-> pattern[((k - 1) % COUNT_PER_BODY) + 1]]

\* the value written through each view
WriteValue(op) ==
    CASE op = "position" -> <<21, 22, 23>>
      [] op = "orientation" -> <<0, 1, 0, 0>>
      [] op = "linear_velocity" -> <<31, 32, 33>>
      [] op = "angular_velocity" -> <<41, 42, 43>>
      [] op = "block" -> <<51, 52, 53, 54, 55, 56, 57, 58, 59, 60, 61, 62, 63>>

WriteOps == {"position", "orientation", "linear_velocity", "angular_velocity", "block"}
CtorOps == {"fixed", "dynamic", "vector"}

NoSeq == <<>>

SvLast(op, index, input, value, before) ==
    [op |-> op, index |-> index, input |-> input, value |-> value, before |-> before]

(***************************************************************************)
(* Operations of the state vector.                                         *)
(***************************************************************************)
Constructed(obj, op, arg, input) ==
    /\ sv' = obj.vec
    /\ count_bodies_' = obj.count_bodies
    /\ count_state_' = obj.count_state
    /\ sv_last' = SvLast(op, arg, input, NoSeq, NoSeq)
    /\ sv_writes' = 0

ConstructFixed ==
    /\ \E body_size \in 0..MaxBodies :
          Constructed(CtorFixed(body_size), "fixed", body_size, NoSeq)
    /\ UNCHANGED rd_vars

ConstructDynamic ==
    /\ \E bodies \in 0..MaxBodies :
          Constructed(CtorDynamic(bodies), "dynamic", bodies, NoSeq)
    /\ UNCHANGED rd_vars

ConstructFromVector ==
    /\ \E len \in 0..MaxLen, pattern \in InputPatterns :
          LET state_vector == InputVector(len, pattern)
          IN  Constructed(CtorVector(state_vector), "vector", len, state_vector)
    /\ UNCHANGED rd_vars

\* a write through position(i), orientation(i), linear_velocity(i),
\* angular_velocity(i) or operator[](i), for i in [0, countBodies())
WriteView ==
    /\ sv_writes < MaxWrites
    /\ \E op \in WriteOps, object_index \in 0..(countBodies - 1) :
          LET view == ViewOf(op, object_index)
          IN  /\ sv' = AssignBlock(sv, view.start, view.count, WriteValue(op))
              /\ sv_last' = SvLast(op, object_index, NoSeq, WriteValue(op), sv)
    /\ sv_writes' = sv_writes + 1
    /\ UNCHANGED <<count_bodies_, count_state_>>
    /\ UNCHANGED rd_vars

(***************************************************************************)
(*                          RigidBodyRenderer                              *)
(*                                                                         *)
(* Vectors are triples of integers and matrices triples of rows.  A depth  *)
(* sample is a fraction <<numerator, denominator>> in lowest terms with a  *)
(* denominator >= 0; the non-finite sample of a pixel that nothing hits is *)
(* <<1, 0>>.                                                               *)
(***************************************************************************)
Dot(a, b) == a[1] * b[1] + a[2] * b[2] + a[3] * b[3]
Cross(a, b) == <<a[2] * b[3] - a[3] * b[2],
                 a[3] * b[1] - a[1] * b[3],
                 a[1] * b[2] - a[2] * b[1]>>
Add(a, b) == <<a[1] + b[1], a[2] + b[2], a[3] + b[3]>>
Sub(a, b) == <<a[1] - b[1], a[2] - b[2], a[3] - b[3]>>
Scale(k, a) == <<k * a[1], k * a[2], k * a[3]>>
MatVec(M, v) == <<Dot(M[1], v), Dot(M[2], v), Dot(M[3], v)>>

Abs(x) == IF x < 0 THEN -x ELSE x
Sgn(x) == IF x < 0 THEN -1 ELSE IF x > 0 THEN 1 ELSE 0

RECURSIVE Gcd(_, _)
Gcd(a, b) == IF b = 0 THEN a ELSE Gcd(b, a % b)

\* std::numeric_limits<float>::infinity()
Infinity == <<1, 0>>
\* std::isfinite(value)
IsFinite(value) == value[2] # 0
\* the fraction num/den, den # 0, in lowest terms
Fraction(num, den) ==
    LET g == Gcd(Abs(num), Abs(den))
    IN  <<(Sgn(den) * num) \div g, Abs(den) \div g>>
\* a < b on samples
Less(a, b) == a[1] * b[2] < b[1] * a[2]

\* the sentinel index of a pixel that nothing hits
NoBody == -1

IdentityMatrix == <<<<1, 0, 0>>, <<0, 1, 0>>, <<0, 0, 1>>>>
ZeroVector == <<0, 0, 0>>

\* orientation().rotation_matrix(): the rotation matrix of a unit quaternion
\* given by its coefficients x, y, z, w
rotation_matrix(q) ==
    LET x == q[1]  y == q[2]  z == q[3]  w == q[4]
    IN  << <<1 - 2 * (y * y + z * z), 2 * (x * y - z * w), 2 * (x * z + y * w)>>,
           <<2 * (x * y + z * w), 1 - 2 * (x * x + z * z), 2 * (y * z - x * w)>>,
           <<2 * (x * z - y * w), 2 * (y * z + x * w), 1 - 2 * (x * x + y * y)>> >>

\* state.count_parts()
count_parts(state) == Len(state)

\* number of bodies of the renderer
BodyCount == Len(vertices_)

(***************************************************************************)
(* Inputs of the renderer's operations.                                    *)
(***************************************************************************)
\* longest pose sequence, and most parts of a state object, given to the renderer
MaxParts == 2
\* largest row count and column count of a camera resolution
MaxRows == 1
MaxCols == 2

\* body A: a triangle in its local plane z = 0, around the local origin
VerticesA == << <<-3, -3, 0>>, <<6, -3, 0>>, <<-3, 6, 0>> >>
IndicesA == << <<0, 1, 2>> >>
\* body B: a zero-area triangle first, then a triangle slanted in depth that
\* crosses the local plane z = 0 on the line x = 0
VerticesB == << <<-3, -3, -1>>, <<6, -3, 2>>, <<-3, 6, -1>> >>
IndicesB == << <<0, 1, 1>>, <<0, 1, 2>> >>

\* the mesh sets a renderer is constructed from: none, one and two bodies
MeshSets ==
    { [vertices |-> <<>>, indices |-> <<>>],
      [vertices |-> <<VerticesA>>, indices |-> <<IndicesA>>],
      [vertices |-> <<VerticesA, VerticesB>>, indices |-> <<IndicesA, IndicesB>>] }

\* orientations as unit quaternions: the identity and the half turn about x
Orientations == { <<0, 0, 0, 1>>, <<1, 0, 0, 0>> }
Rotations == { rotation_matrix(q) : q \in Orientations }
\* in front of the camera, and behind it
Translations == { <<0, 0, 2>>, <<0, 0, -1>> }

\* camera matrices: focal length 1 and 2, principal point at pixel (0, 0)
Cameras == { <<<<1, 0, 0>>, <<0, 1, 0>>, <<0, 0, 1>>>>,
             <<<<2, 0, 0>>, <<0, 2, 0>>, <<0, 0, 1>>>> }
RowCounts == 1..MaxRows
ColCounts == 1..MaxCols

\* the bodies of the mesh sets and the rays of the cameras
BodyVertices == UNION { { m.vertices[i] : i \in 1..Len(m.vertices) } : m \in MeshSets }
BodyIndices == UNION { { m.indices[i] : i \in 1..Len(m.indices) } : m \in MeshSets }

\* the bad values a caller of the dense renders passes; Infinity is the default
BadValues == { Infinity, <<0, 1>> }

SeqsUpTo(S, n) == UNION { [1..k -> S] : k \in 0..n }

\* state objects: per part an orientation and a position
Parts == [orientation : Orientations, position : Translations]
States == SeqsUpTo(Parts, MaxParts)
\* affine transforms: a rotation and a translation
Affines == [rotation : Rotations, translation : Translations]

(***************************************************************************)
(* The ray-casting kernel.                                                 *)
(***************************************************************************)
\* the direction of the ray through pixel (row, col), the back-projection
\* K^-1 (col, row, 1) scaled by the two focal lengths
RayDir(K, row, col) ==
    <<(col - K[1][3]) * K[2][2], (row - K[2][3]) * K[1][1], K[1][1] * K[2][2]>>

RayDirs ==
    { RayDir(K, row, col) : K \in Cameras, row \in 0..(MaxRows - 1), col \in 0..(MaxCols - 1) }

\* a vertex of a body in camera space under the body's pose
Posed(R, t, v) == Add(MatVec(R, v), t)

\* the element of a one-element set; Only({ e(v) : v \in {x} }) is e of the
\* value of x, which is computed once, as a local variable is
Only(S) == CHOOSE r \in S : TRUE

\* the ray from the origin along d and the triangle p0 p1 p2 with normal n,
\* where det = d . n and num = p0 . n, so that the ray meets the triangle's
\* plane at (num / det) d: the depth of the hit, or Infinity.  A ray parallel
\* to the plane and a zero-area triangle (det = 0) meet nothing, and a hit
\* counts only inside the triangle and at a strictly positive depth
HitAt_AnyDepth(d, p0, p1, p2, n, det, num) ==
    LET Q == Scale(num, d)
        Inside(a, b) ==
            Dot(Cross(Sub(b, a), Sub(Q, Scale(det, a))), n) * Sgn(det) >= 0
    IN  IF det = 0 THEN Infinity
        ELSE IF ~(Inside(p0, p1) /\ Inside(p1, p2) /\ Inside(p2, p0)) THEN Infinity
        ELSE Fraction(num * d[3], det)
HitAt(d, p0, p1, p2, n, det, num) ==
    LET Q == Scale(num, d)
        Inside(a, b) ==
            Dot(Cross(Sub(b, a), Sub(Q, Scale(det, a))), n) * Sgn(det) >= 0
    IN  IF det = 0 THEN Infinity
        ELSE IF ~(Inside(p0, p1) /\ Inside(p1, p2) /\ Inside(p2, p0)) THEN Infinity
        ELSE IF num * d[3] * Sgn(det) <= 0 THEN Infinity
        ELSE Fraction(num * d[3], det)

Hit(d, p0, p1, p2) ==
    Only({ Only({ Only({ HitAt(d, p[1], p[2], p[3], n, s[1], s[2]) :
                         s \in { <<Dot(d, n), Dot(p[1], n)>> } }) :
                  n \in { Cross(Sub(p[2], p[1]), Sub(p[3], p[1])) } }) :
           p \in { <<p0, p1, p2>> } })

\* one body under the pose R, t and one ray: over the body's triangles in
\* order, the nearest hit so far
RECURSIVE BodyFrom(_, _, _, _, _, _, _)
BodyFrom(verts, inds, R, t, d, tri, best) ==
    IF tri > Len(inds) THEN best
    ELSE LET P(k) == Posed(R, t, verts[inds[tri][k] + 1])
         IN  Only({ BodyFrom(verts, inds, R, t, d, tri + 1, nearest) :
                    nearest \in { Only({ IF IsFinite(h) /\ Less(h, best) THEN h ELSE best :
                                         h \in { Hit(d, P(1), P(2), P(3)) } }) } })

BodyCast(verts, inds, R, t, d) == BodyFrom(verts, inds, R, t, d, 1, Infinity)

\* BodyCast, tabulated over the bodies, poses and rays of the model
BodyCastTable ==
    [verts \in BodyVertices |-> [inds \in BodyIndices |-> [R \in Rotations |->
        [t \in Translations \cup {ZeroVector} |-> [d \in RayDirs |->
            BodyCast(verts, inds, R, t, d)]]]]]

\* one pixel: over the bodies in order, the nearest hit so far and the body
\* it belongs to; the first of equal depths is kept
RECURSIVE CastFrom(_, _, _, _, _, _, _)
CastFrom(verts, inds, R, t, d, body, best) ==
    IF body > Len(verts) THEN best
    ELSE Only({ CastFrom(verts, inds, R, t, d, body + 1, nearest) :
                nearest \in { Only({ IF IsFinite(h) /\ Less(h, best.depth)
                                     THEN [depth |-> h, index |-> body - 1]
                                     ELSE best :
                                     h \in { BodyCastTable[verts[body]][inds[body]]
                                                           [R[body]][t[body]][d] } }) } })

CastPixel(verts, inds, R, t, K, row, col) ==
    CastFrom(verts, inds, R, t, RayDir(K, row, col), 1,
             [depth |-> Infinity, index |-> NoBody])

\* Render(camera_matrix, n_rows, n_cols, intersect_indices, depth): one sample
\* per pixel in row-major order
RayCast(verts, inds, R, t, K, rows, cols) ==
    [depth   |-> [k \in 1..(rows * cols) |->
                    CastPixel(verts, inds, R, t, K, (k - 1) \div cols, (k - 1) % cols).depth],
     indices |-> [k \in 1..(rows * cols) |->
                    CastPixel(verts, inds, R, t, K, (k - 1) \div cols, (k - 1) % cols).index]]

\* what a ray-cast read: the camera and the poses it was run with
CastOf(R, t, K, rows, cols) ==
    <<[K |-> K, rows |-> rows, cols |-> cols, R |-> R, t |-> t]>>
NoCast == <<>>

NoArgs == [nrot |-> 0, ntr |-> 0, state |-> <<>>, K |-> <<>>, rows |-> 0, cols |-> 0,
           bad |-> Infinity]

Call(op, error, args, cast, depth, indices, dense, written) ==
    [op |-> op, error |-> error, args |-> args, cast |-> cast, depth |-> depth,
     indices |-> indices, dense |-> dense, written |-> written]

\* the caller holds no outputs of an earlier call
Returned == last.op \in {"construct", "returned"}

\* the caller has used the outputs of the last call and lets them go
Return ==
    /\ ~Returned
    /\ last' = Call("returned", "none", NoArgs, NoCast, <<>>, <<>>, <<>>, {})
    /\ UNCHANGED <<vertices_, indices_, R_, t_, camera_matrix_, n_rows_, n_cols_,
                   params_set>>
    /\ UNCHANGED sv_vars

(***************************************************************************)
(* Pose and parameter management.                                          *)
(***************************************************************************)
\* set_poses(rotations, translations): both sequences must be as long as the
\* body count, else InvalidArgument and the poses stay; otherwise they replace
\* the current poses
set_poses(rotations, translations) ==
    IF Len(rotations) # BodyCount \/ Len(translations) # BodyCount
    THEN [error |-> "InvalidArgument", R |-> R_, t |-> t_]
    ELSE [error |-> "none", R |-> rotations, t |-> translations]

\* set_poses(affine_transforms): the same, from combined transforms
set_poses_affine(poses) ==
    set_poses([i \in 1..Len(poses) |-> poses[i].rotation],
              [i \in 1..Len(poses) |-> poses[i].translation])

SetPoses ==
    /\ Returned
    /\ \E rotations \in SeqsUpTo(Rotations, MaxParts),
          translations \in SeqsUpTo(Translations, MaxParts) :
          LET sp == set_poses(rotations, translations)
          IN  /\ R_' = sp.R
              /\ t_' = sp.t
              /\ last' = Call("set_poses", sp.error,
                              [NoArgs EXCEPT !.nrot = Len(rotations),
                                             !.ntr = Len(translations)],
                              NoCast, <<>>, <<>>, <<>>, {})
    /\ UNCHANGED <<vertices_, indices_, camera_matrix_, n_rows_, n_cols_, params_set>>
    /\ UNCHANGED sv_vars

SetPosesAffine ==
    /\ Returned
    /\ \E poses \in SeqsUpTo(Affines, MaxParts) :
          LET sp == set_poses_affine(poses)
          IN  /\ R_' = sp.R
              /\ t_' = sp.t
              /\ last' = Call("set_poses_affine", sp.error,
                              [NoArgs EXCEPT !.nrot = Len(poses), !.ntr = Len(poses)],
                              NoCast, <<>>, <<>>, <<>>, {})
    /\ UNCHANGED <<vertices_, indices_, camera_matrix_, n_rows_, n_cols_, params_set>>
    /\ UNCHANGED sv_vars

\* parameters(camera_matrix, n_rows, n_cols)
Parameters ==
    /\ Returned
    /\ \E K \in Cameras, rows \in RowCounts, cols \in ColCounts :
          /\ camera_matrix_' = K
          /\ n_rows_' = rows
          /\ n_cols_' = cols
          /\ last' = Call("parameters", "none",
                          [NoArgs EXCEPT !.K = K, !.rows = rows, !.cols = cols],
                          NoCast, <<>>, <<>>, <<>>, {})
    /\ params_set' = TRUE
    /\ UNCHANGED <<vertices_, indices_, R_, t_>>
    /\ UNCHANGED sv_vars

(***************************************************************************)
(* The Render overloads.                                                   *)
(***************************************************************************)
\* what a const member function leaves alone: every member of the renderer
ConstFrame_Caching(K, rows, cols) ==
    /\ camera_matrix_' = K
    /\ n_rows_' = rows
    /\ n_cols_' = cols
    /\ UNCHANGED <<vertices_, indices_, R_, t_, params_set>>
ConstFrame(K, rows, cols) ==
    UNCHANGED <<vertices_, indices_, R_, t_, camera_matrix_, n_rows_, n_cols_,
                params_set>>

\* Render(camera_matrix, n_rows, n_cols, intersect_indices, depth) const
RenderIndices ==
    /\ Returned
    /\ \E K \in Cameras, rows \in RowCounts, cols \in ColCounts :
          LET rc == RayCast(vertices_, indices_, R_, t_, K, rows, cols)
          IN  /\ last' = Call("render_indices", "none",
                              [NoArgs EXCEPT !.K = K, !.rows = rows, !.cols = cols],
                              CastOf(R_, t_, K, rows, cols),
                              rc.depth, rc.indices, <<>>, {"depth", "indices"})
              /\ ConstFrame(K, rows, cols)
    /\ UNCHANGED sv_vars

\* Render(camera_matrix, n_rows, n_cols, depth_image) const
RenderDepth ==
    /\ Returned
    /\ \E K \in Cameras, rows \in RowCounts, cols \in ColCounts :
          LET rc == RayCast(vertices_, indices_, R_, t_, K, rows, cols)
          IN  /\ last' = Call("render_depth", "none",
                              [NoArgs EXCEPT !.K = K, !.rows = rows, !.cols = cols],
                              CastOf(R_, t_, K, rows, cols),
                              rc.depth, <<>>, <<>>, {"depth"})
              /\ ConstFrame(K, rows, cols)
    /\ UNCHANGED sv_vars

\* Render(depth_image) const: the cached camera matrix and resolution;
\* PreconditionViolation when neither the constructor nor parameters(...) set them
RenderCached ==
    /\ Returned
    /\ IF ~params_set
       THEN last' = Call("render_cached", "PreconditionViolation", NoArgs,
                         NoCast, <<>>, <<>>, <<>>, {})
       ELSE LET rc == RayCast(vertices_, indices_, R_, t_,
                              camera_matrix_, n_rows_, n_cols_)
            IN  last' = Call("render_cached", "none", NoArgs,
                             CastOf(R_, t_, camera_matrix_, n_rows_, n_cols_),
                             rc.depth, <<>>, <<>>, {"depth"})
    /\ ConstFrame(camera_matrix_, n_rows_, n_cols_)
    /\ UNCHANGED sv_vars

\* Render(state, depth_vector): the poses of the state's parts, set_poses, then
\* Render(camera_matrix_, n_rows_, n_cols_, depth_vector); an exception of
\* set_poses leaves the function before the render
RenderState_StalePose(state) ==
    LET rotations ==
            [i \in 1..count_parts(state) |-> rotation_matrix(state[i].orientation)]
        translations == [i \in 1..count_parts(state) |-> state[i].position]
        sp == set_poses(rotations, translations)
    IN  IF sp.error # "none"
        THEN [error |-> sp.error, R |-> sp.R, t |-> sp.t,
              cast |-> NoCast, depth |-> <<>>, written |-> {}]
        ELSE [error |-> "none", R |-> sp.R, t |-> sp.t,
              cast |-> CastOf(R_, t_, camera_matrix_, n_rows_, n_cols_),
              depth |-> RayCast(vertices_, indices_, R_, t_,
                                camera_matrix_, n_rows_, n_cols_).depth,
              written |-> {"depth"}]
RenderState_IgnoreError(state) ==
    LET rotations ==
            [i \in 1..count_parts(state) |-> rotation_matrix(state[i].orientation)]
        translations == [i \in 1..count_parts(state) |-> state[i].position]
        sp == set_poses(rotations, translations)
    IN  [error |-> sp.error, R |-> sp.R, t |-> sp.t,
         cast |-> CastOf(sp.R, sp.t, camera_matrix_, n_rows_, n_cols_),
         depth |-> RayCast(vertices_, indices_, sp.R, sp.t,
                           camera_matrix_, n_rows_, n_cols_).depth,
         written |-> {"depth"}]
RenderState(state) ==
    LET rotations ==
            [i \in 1..count_parts(state) |-> rotation_matrix(state[i].orientation)]
        translations == [i \in 1..count_parts(state) |-> state[i].position]
        sp == set_poses(rotations, translations)
    IN  IF sp.error # "none"
        THEN [error |-> sp.error, R |-> sp.R, t |-> sp.t,
              cast |-> NoCast, depth |-> <<>>, written |-> {}]
        ELSE [error |-> "none", R |-> sp.R, t |-> sp.t,
              cast |-> CastOf(sp.R, sp.t, camera_matrix_, n_rows_, n_cols_),
              depth |-> RayCast(vertices_, indices_, sp.R, sp.t,
                                camera_matrix_, n_rows_, n_cols_).depth,
              written |-> {"depth"}]

RenderGeneric ==
    /\ Returned
    /\ \E state \in States :
          LET r == RenderState(state)
          IN  /\ R_' = r.R
              /\ t_' = r.t
              /\ last' = Call("render_state", r.error, [NoArgs EXCEPT !.state = state],
                              r.cast, r.depth, <<>>, <<>>, r.written)
    /\ UNCHANGED <<vertices_, indices_, camera_matrix_, n_rows_, n_cols_, params_set>>
    /\ UNCHANGED sv_vars

\* the loop of Render(state, Eigen::VectorXd&, double bad_value)
DenseDouble(depth_vector, bad_value) ==
    [i \in 1..Len(depth_vector) |->
        IF IsFinite(depth_vector[i]) THEN depth_vector[i] ELSE bad_value]

\* the loop of Render(state, Eigen::VectorXf&, float bad_value)
DenseFloat(depth_vector, bad_value) ==
    [i \in 1..Len(depth_vector) |->
        IF IsFinite(depth_vector[i]) THEN depth_vector[i] ELSE Infinity]

RenderDenseDouble ==
    /\ Returned
    /\ \E state \in States, bad_value \in BadValues :
          LET r == RenderState(state)
              ok == r.error = "none"
          IN  /\ R_' = r.R
              /\ t_' = r.t
              /\ last' = Call("render_dense_double", r.error,
                              [NoArgs EXCEPT !.state = state, !.bad = bad_value],
                              r.cast, r.depth, <<>>,
                              IF ok THEN DenseDouble(r.depth, bad_value) ELSE <<>>,
                              IF ok THEN {"dense"} ELSE {})
    /\ UNCHANGED <<vertices_, indices_, camera_matrix_, n_rows_, n_cols_, params_set>>
    /\ UNCHANGED sv_vars

RenderDenseFloat ==
    /\ Returned
    /\ \E state \in States, bad_value \in BadValues :
          LET r == RenderState(state)
              ok == r.error = "none"
          IN  /\ R_' = r.R
              /\ t_' = r.t
              /\ last' = Call("render_dense_float", r.error,
                              [NoArgs EXCEPT !.state = state, !.bad = bad_value],
                              r.cast, r.depth, <<>>,
                              IF ok THEN DenseFloat(r.depth, bad_value) ELSE <<>>,
                              IF ok THEN {"dense"} ELSE {})
    /\ UNCHANGED <<vertices_, indices_, camera_matrix_, n_rows_, n_cols_, params_set>>
    /\ UNCHANGED sv_vars

(***************************************************************************)
(* Construction and the two specifications.                                *)
(***************************************************************************)
\* a state object as one of the three constructors leaves it
StateObjectIs(obj, op, arg, input) ==
    /\ sv = obj.vec
    /\ count_bodies_ = obj.count_bodies
    /\ count_state_ = obj.count_state
    /\ sv_last = SvLast(op, arg, input, NoSeq, NoSeq)
    /\ sv_writes = 0

\* RigidBodyRenderer(vertices, indices [, camera_matrix, n_rows, n_cols]): the
\* mesh copied in and every pose the identity; the constructor without a camera
\* leaves camera_matrix_, n_rows_ and n_cols_ uninitialized, which is any value
RendererIs(mesh, K, rows, cols, with_camera) ==
    /\ vertices_ = mesh.vertices
    /\ indices_ = mesh.indices
    /\ R_ = [i \in 1..Len(mesh.vertices) |-> IdentityMatrix]
    /\ t_ = [i \in 1..Len(mesh.vertices) |-> ZeroVector]
    /\ camera_matrix_ = K
    /\ n_rows_ = rows
    /\ n_cols_ = cols
    /\ params_set = with_camera
    /\ last = Call("construct", "none", NoArgs, NoCast, <<>>, <<>>, <<>>, {})

InitState ==
    /\ \/ \E body_size \in 0..MaxBodies :
             StateObjectIs(CtorFixed(body_size), "fixed", body_size, NoSeq)
       \/ \E bodies \in 0..MaxBodies :
             StateObjectIs(CtorDynamic(bodies), "dynamic", bodies, NoSeq)
    /\ RendererIs([vertices |-> <<>>, indices |-> <<>>],
                  IdentityMatrix, 1, 1, TRUE)

InitRender ==
    /\ StateObjectIs(CtorDynamic(0), "dynamic", 0, NoSeq)
    /\ \E mesh \in MeshSets, K \in Cameras, rows \in RowCounts, cols \in ColCounts,
          with_camera \in BOOLEAN :
          RendererIs(mesh, K, rows, cols, with_camera)

NextState ==
    \/ ConstructFixed
    \/ ConstructDynamic
    \/ ConstructFromVector
    \/ WriteView

NextRender ==
    \/ SetPoses
    \/ SetPosesAffine
    \/ Parameters
    \/ RenderIndices
    \/ RenderDepth
    \/ RenderCached
    \/ RenderGeneric
    \/ RenderDenseDouble
    \/ RenderDenseFloat
    \/ Return

SpecState == InitState /\ [][NextState]_vars
SpecRender == InitRender /\ [][NextRender]_vars

(***************************************************************************)
(*                    Properties of the state vector                       *)
(***************************************************************************)
\* squared norm of a block of scalars
NormSq(q) == q[1] * q[1] + q[2] * q[2] + q[3] * q[3] + q[4] * q[4]

\* the 4 scalars at offsets 3..6 of body i's 13-scalar block
OrientationBlockAt(v, i) == <<v[13 * i + 4], v[13 * i + 5], v[13 * i + 6], v[13 * i + 7]>>

AllOrientationsIdentity ==
    \A i \in 0..(countBodies - 1) :
        /\ OrientationBlockAt(sv, i) = <<0, 0, 0, 1>>
        /\ NormSq(OrientationBlockAt(sv, i)) = 1

C2_NoStateFromRaggedVector ==
    ~(/\ sv_last.op = "vector"
      /\ Len(sv_last.input) % 13 # 0
      /\ countBodies = Len(sv_last.input) \div 13)

\* C3: after every valid construction (fixed count N, dynamic count N, a flat
\* sequence of length L that is a multiple of 13) the body count times 13 is
\* the state size, which is the length of the underlying vector: 13 * N,
\* respectively L.
C3_CountsAgree ==
    /\ sv_last.op \in {"fixed", "dynamic"} =>
          /\ countBodies = sv_last.index
          /\ countBodies * 13 = countState
          /\ countState = Len(sv)
          /\ Len(sv) = 13 * sv_last.index
    /\ (sv_last.op = "vector" /\ Len(sv_last.input) % 13 = 0) =>
          /\ countBodies * 13 = countState
          /\ countState = Len(sv)
          /\ Len(sv) = Len(sv_last.input)

\* a two-body state right after the construction from 26 scalars
C3_Witness ==
    /\ sv_last.op = "vector"
    /\ Len(sv_last.input) = 26
    /\ countBodies = 2

\* the scalar range (0-based offsets) the layout gives the field of body i
LayoutRange(op, i) ==
    CASE op = "position" -> (13 * i) .. (13 * i + 2)
      [] op = "orientation" -> (13 * i + 3) .. (13 * i + 6)
      [] op = "linear_velocity" -> (13 * i + 7) .. (13 * i + 9)
      [] op = "angular_velocity" -> (13 * i + 10) .. (13 * i + 12)
      [] op = "block" -> (13 * i) .. (13 * i + 12)

FieldOps == {"position", "orientation", "linear_velocity", "angular_velocity"}

\* C10: for every body i in [0, body count) the views position(i),
\* orientation(i), linear_velocity(i) and angular_velocity(i) address the
\* ranges [13i, 13i+3), [13i+3, 13i+7), [13i+7, 13i+10) and [13i+10, 13i+13),
\* pairwise disjoint and together the range of operator[](i); a write through
\* a view changes only the scalars of its range and is read back unchanged by
\* the get-style accessor of the same field and index.
C10_ViewsAddressTheLayout ==
    /\ \A i \in 0..(countBodies - 1) :
          /\ \A op \in WriteOps : ViewRange(ViewOf(op, i)) = LayoutRange(op, i)
          /\ \A op1, op2 \in FieldOps :
                op1 # op2 => ViewRange(ViewOf(op1, i)) \cap ViewRange(ViewOf(op2, i)) = {}
          /\ UNION { ViewRange(ViewOf(op, i)) : op \in FieldOps }
                = ViewRange(SingleBody(i))
          /\ ViewRange(SingleBody(i)) \subseteq 0..(Len(sv) - 1)
    /\ sv_last.op \in WriteOps =>
          /\ sv_last.index \in 0..(countBodies - 1)
          /\ Len(sv) = Len(sv_last.before)
          /\ \A k \in 0..(Len(sv) - 1) :
                IF k \in LayoutRange(sv_last.op, sv_last.index)
                THEN sv[k + 1] =
                        sv_last.value[k + 1 - 13 * sv_last.index
                                      - (CHOOSE o \in LayoutRange(sv_last.op, 0) :
                                            \A o2 \in LayoutRange(sv_last.op, 0) : o <= o2)]
                ELSE sv[k + 1] = sv_last.before[k + 1]
          /\ sv_last.op \in FieldOps =>
                GetOf(sv_last.op, sv, sv_last.index) = sv_last.value
          /\ sv_last.op = "block" =>
                /\ get_position(sv, sv_last.index) = <<51, 52, 53>>
                /\ get_orientation(sv, sv_last.index) = <<54, 55, 56, 57>>
                /\ get_linear_velocity(sv, sv_last.index) = <<58, 59, 60>>
                /\ get_angular_velocity(sv, sv_last.index) = <<61, 62, 63>>

\* a write through linear_velocity(1) of a two-body state
C10_Witness ==
    /\ sv_last.op = "linear_velocity"
    /\ sv_last.index = 1
    /\ countBodies = 2
    /\ sv_last.before # sv

(***************************************************************************)
(*                      Properties of the renderer                         *)
(***************************************************************************)
GenericOps == {"render_state", "render_dense_double", "render_dense_float"}
DenseOps == {"render_dense_double", "render_dense_float"}
SetPosesOps == {"set_poses", "set_poses_affine"}
ConstOps == {"render_indices", "render_depth", "render_cached"}

\* C4: after either dense-vector Render(state, out, bad_value), out has one
\* entry per raw depth sample, the raw sample where it is finite and the
\* caller's bad_value where it is not.
C4_DenseUsesBadValue ==
    (last.op \in DenseOps /\ last.error = "none") =>
        /\ "dense" \in last.written
        /\ Len(last.dense) = Len(last.depth)
        /\ \A i \in 1..Len(last.depth) :
              last.dense[i] = IF IsFinite(last.depth[i]) THEN last.depth[i]
                              ELSE last.args.bad

\* the poses a state object holds
StateRotations(state) == [i \in 1..Len(state) |-> rotation_matrix(state[i].orientation)]
StatePositions(state) == [i \in 1..Len(state) |-> state[i].position]

\* C5: a generic Render(state, output) that returns has read the pose of
\* every part from the state, has set exactly those poses before the ray-cast,
\* and has ray-cast with the cached camera matrix and resolution; afterwards
\* the current pose is the state's pose and the cached camera parameters are
\* as before, and they change only in parameters(...); a later parameter-less
\* render uses that pose.
C5_GenericRenderSetsThenCasts ==
    /\ [](last.op \in GenericOps /\ last.error = "none" =>
             /\ Len(last.args.state) = BodyCount
             /\ R_ = StateRotations(last.args.state)
             /\ t_ = StatePositions(last.args.state)
             /\ last.cast = <<[K |-> camera_matrix_, rows |-> n_rows_, cols |-> n_cols_,
                              R |-> StateRotations(last.args.state),
                              t |-> StatePositions(last.args.state)]>>
             /\ Len(last.depth) = n_rows_ * n_cols_)
    /\ [](last.op = "render_cached" /\ last.error = "none" =>
             /\ last.cast[1].R = R_
             /\ last.cast[1].t = t_)
    /\ [][last'.op \in GenericOps =>
             UNCHANGED <<camera_matrix_, n_rows_, n_cols_>>]_vars
    /\ [][<<camera_matrix_, n_rows_, n_cols_>>' # <<camera_matrix_, n_rows_, n_cols_>>
             => last'.op = "parameters"]_vars
    /\ [][<<R_, t_>>' # <<R_, t_>> => last'.op \in GenericOps \cup SetPosesOps]_vars

\* a generic render of a two-part state with a half turn, which moved the poses
C5_Witness ==
    /\ last.op = "render_state"
    /\ last.error = "none"
    /\ BodyCount = 2
    /\ last.args.state[2].orientation = <<1, 0, 0, 0>>
    /\ R_[2] # IdentityMatrix
    /\ R_[1] = IdentityMatrix
    /\ params_set

\* C6: a parameter-less render, Render(depth) or the generic Render(state,
\* output) with a state of as many parts as the renderer has bodies, on a
\* renderer whose camera was never set fails with PreconditionViolation and
\* ray-casts nothing.
C6_UnsetCameraIsRefused ==
    (/\ last.op \in {"render_cached"} \cup GenericOps
     /\ ~params_set
     /\ last.op \in GenericOps => Len(last.args.state) = BodyCount) =>
        /\ last.error = "PreconditionViolation"
        /\ last.cast = NoCast

\* C7: set_poses with a rotation, translation or affine-transform sequence
\* whose length differs from the body count fails with InvalidArgument and
\* leaves every pose as it was; so does the call inside the generic
\* Render(state, output) when count_parts() differs from the body count, and
\* then nothing is rendered.
C7_WrongLengthIsRefused ==
    /\ []((/\ last.op \in SetPosesOps
           /\ (last.args.nrot # BodyCount \/ last.args.ntr # BodyCount))
             => last.error = "InvalidArgument")
    /\ []((last.op \in GenericOps /\ Len(last.args.state) # BodyCount) =>
             /\ last.error = "InvalidArgument"
             /\ last.cast = NoCast
             /\ last.written = {}
             /\ last.depth = <<>>
             /\ last.dense = <<>>)
    /\ [][last'.error = "InvalidArgument" => UNCHANGED <<R_, t_>>]_vars

\* a generic render refused for a one-part state on a two-body renderer whose
\* poses are not the initial ones
C7_Witness ==
    /\ last.op = "render_state"
    /\ last.error = "InvalidArgument"
    /\ BodyCount = 2
    /\ Len(last.args.state) = 1
    /\ t_[1] # ZeroVector

\* C8: the three Render overloads without a state object leave the cached
\* camera matrix, row and column counts, every pose and the mesh unchanged;
\* the cached camera changes only in parameters(...), and a parameter-less
\* Render(depth) ray-casts with the cached values and gives rows * cols samples.
C8_ConstRendersKeepTheCache ==
    /\ [][last'.op \in ConstOps =>
             UNCHANGED <<camera_matrix_, n_rows_, n_cols_, R_, t_, vertices_, indices_>>]_vars
    /\ [][<<camera_matrix_, n_rows_, n_cols_>>' # <<camera_matrix_, n_rows_, n_cols_>>
             => /\ last'.op = "parameters"
                /\ camera_matrix_' = last'.args.K
                /\ n_rows_' = last'.args.rows
                /\ n_cols_' = last'.args.cols]_vars
    /\ [](last.op = "render_cached" /\ last.error = "none" =>
             /\ last.cast = CastOf(R_, t_, camera_matrix_, n_rows_, n_cols_)
             /\ Len(last.depth) = n_rows_ * n_cols_)

\* an explicit-camera render with a camera and a resolution other than the cached ones
C8_Witness ==
    /\ last.op = "render_depth"
    /\ params_set
    /\ last.args.K # camera_matrix_
    /\ last.args.cols # n_cols_

\* the valid hits of pixel k of the cast c: the depths at which its ray meets
\* a triangle of body number b (from 1)
HitsOf(c, k, b) ==
    LET d == RayDir(c.K, (k - 1) \div c.cols, (k - 1) % c.cols)
        P(tri, j) == Posed(c.R[b], c.t[b], vertices_[b][indices_[b][tri][j] + 1])
    IN  { h \in { Hit(d, P(tri, 1), P(tri, 2), P(tri, 3)) : tri \in 1..Len(indices_[b]) } :
            IsFinite(h) }

\* C9: for every render and every pixel the depth is the least valid hit
\* depth over all bodies and triangles and is strictly positive, the index is
\* that of a body with a hit at that depth, and a pixel without a valid hit
\* (every pixel of a renderer without bodies) has a non-finite depth and the
\* sentinel index; both outputs have rows * cols entries.  A triangle facing
\* the camera from z = 2 is seen at depth 2, and one at z = -1 is not seen.
C9_NearestValidHit ==
    /\ last.cast # NoCast =>
          LET c == last.cast[1]
              all(k) == UNION { HitsOf(c, k, b) : b \in 1..BodyCount }
          IN  /\ "depth" \in last.written \/ "dense" \in last.written
              /\ Len(last.depth) = c.rows * c.cols
              /\ "indices" \in last.written => Len(last.indices) = c.rows * c.cols
              /\ \A k \in 1..(c.rows * c.cols) :
                    /\ all(k) = {} => ~IsFinite(last.depth[k])
                    /\ all(k) # {} =>
                          /\ last.depth[k] \in all(k)
                          /\ \A h \in all(k) : ~Less(h, last.depth[k])
                          /\ last.depth[k][1] > 0
                    /\ "indices" \in last.written =>
                          IF all(k) = {} THEN last.indices[k] = -1
                          ELSE /\ last.indices[k] \in 0..(BodyCount - 1)
                               /\ last.depth[k] \in HitsOf(c, k, last.indices[k] + 1)
    /\ \A K \in Cameras :
          /\ RayCast(<<VerticesA>>, <<IndicesA>>, <<IdentityMatrix>>, <<<<0, 0, 2>>>>, K, 1, 1)
                = [depth |-> <<<<2, 1>>>>, indices |-> <<0>>]
          /\ RayCast(<<VerticesA>>, <<IndicesA>>, <<IdentityMatrix>>, <<<<0, 0, -1>>>>, K, 1, 1)
                = [depth |-> <<<<1, 0>>>>, indices |-> <<-1>>]
          /\ RayCast(<<VerticesA>>, <<IndicesA>>, <<IdentityMatrix>>, <<<<0, 0, 0>>>>, K, 1, 1)
                = [depth |-> <<<<1, 0>>>>, indices |-> <<-1>>]

\* a render of two bodies in which the second body is the nearer one at the
\* second pixel, at a depth that is no whole number, and both are hit at the first
C9_Witness ==
    /\ last.op = "render_indices"
    /\ BodyCount = 2
    /\ Len(last.depth) = 2
    /\ last.indices = <<0, 1>>
    /\ last.depth[2][2] > 1
    /\ HitsOf(last.cast[1], 2, 1) # {}
    /\ HitsOf(last.cast[1], 1, 2) # {}
=============================================================================
